---- MODULE Spec2Model ----
(***************************************************************************)
(* Model of QDirStat's exclude rules (ExcludeRules.h): ExcludeRule, one    *)
(* regular expression with an enabled flag, and ExcludeRules, a            *)
(* QPtrList<ExcludeRule> that owns its rules and is scanned by match().    *)
(*                                                                         *)
(* The header defines regexp/setRegexp/isEnabled/enable and                *)
(* first/next/current/clear inline; the bodies of the constructors, the    *)
(* destructor, ExcludeRule::match, ExcludeRules::add/match/matchingRule    *)
(* and excludeRules() are only declared there and are modelled from their  *)
(* documentation.                                                          *)
(***************************************************************************)
EXTENDS Integers, Sequences, FiniteSets, TLC

\* ------------------------------------------------------------------ bounds
MaxRules   == 2     \* ExcludeRule objects ever constructed
MaxSets    == 2     \* ExcludeRules objects ever constructed

RuleIds == 1..MaxRules
SetIds  == 1..MaxSets

\* Texts (file names) handed to match():  a  b  ab  ba
Texts == { <<"a">>, <<"b">>, <<"a", "b">>, <<"b", "a">> }

\* Regular expressions given to rules:  ^a   b$
Patterns == { [bol |-> TRUE,  lit |-> <<"a">>, eol |-> FALSE],
              [bol |-> FALSE, lit |-> <<"b">>, eol |-> TRUE ] }

NoPattern == [bol |-> FALSE, lit |-> <<>>, eol |-> FALSE]
NoText    == <<>>

\* --------------------------------------------------------------- variables
VARIABLES
    rules,        \* heap of ExcludeRule objects: st, _regexp, _enabled
    sets,         \* heap of ExcludeRules objects: st, _rules (items, cur)
    singleton,    \* the static singleton pointer of excludeRules(), 0 = none
    callerOwned,  \* rules constructed by the caller and not yet handed to add()
    ret,          \* the most recent call, its arguments and what it returned
                  \* (cur0: where the cursor stood before a match/matchingRule)
    \* history variables, written from the arguments of the calls only
    ghostPat,     \* per rule: the pattern last given to the constructor/setRegexp
    ghostEn,      \* per rule: the flag last given to enable (TRUE at construction)
    addLog,       \* per set: the rules passed to add() since construction/clear()
    owner,        \* per rule: the set it was handed to, 0 = none
    delCount,     \* per rule: how many times it was deleted
    created       \* how many times excludeRules() constructed an instance

vars == << rules, sets, singleton, callerOwned, ret,
           ghostPat, ghostEn, addLog, owner, delCount, created >>

ghosts == << ghostPat, ghostEn, addLog, owner, delCount, created >>

\* ----------------------------------------------------------------- helpers
Range(s) == { s[i] : i \in 1..Len(s) }

Min(S) == CHOOSE x \in S : \A y \in S : x <= y

\* QRegExp search: pattern p matches somewhere within text T.
Matches(p, T) ==
    LET m == Len(p.lit)
        n == Len(T)
    IN  \E i \in 0..n :
            /\ i + m <= n
            /\ p.bol => i = 0
            /\ p.eol => i + m = n
            /\ \A j \in 1..m : T[i + j] = p.lit[j]

FreeRule == [st |-> "free", regexp |-> NoPattern, enabled |-> FALSE]
DeadRule == [st |-> "dead", regexp |-> NoPattern, enabled |-> FALSE]

EmptyList == [items |-> <<>>, cur |-> 0]
FreeSet   == [st |-> "free", list |-> EmptyList]
DeadSet   == [st |-> "dead", list |-> EmptyList]

Ret(op, s, r, T, b, v, p) ==
    [op |-> op, set |-> s, rule |-> r, text |-> T, flag |-> b, val |-> v, pat |-> p,
     cur0 |-> 0]

\* ------------------------------------------------------------- ExcludeRule
\* ExcludeRule::ExcludeRule( regexp ): new rules are enabled by default.
ExcludeRule(p) == [st |-> "live", regexp |-> p, enabled |-> TRUE]

regexp(R) == R.regexp

\* Mutants of setRegexp: one keeps the old pattern, one re-enables the rule.
setRegexp_ignored(R, p) == R
setRegexp_enabling(R, p) == [R EXCEPT !.regexp = p, !.enabled = TRUE]

setRegexp(R, p) == [R EXCEPT !.regexp = p]

isEnabled(R) == R.enabled

enable(R, flag) == [R EXCEPT !.enabled = flag]

\* ExcludeRule::match( text ): only enabled rules ever match.
ExcludeRule_match(R, T) ==
    IF ~ R.enabled THEN FALSE ELSE Matches(R.regexp, T)

\* ------------------------------------------------- ExcludeRules / QPtrList
\* Each operator takes the _rules list L = [items, cur] (cur = 0: no current
\* item) and yields the list afterwards and the returned rule (0 = null).

\* Mutants of first: one returns the first rule without moving the cursor
\* there, one does not rewind a cursor that is on a rule.
first_unmoved(L) ==
    [list |-> L, val |-> IF Len(L.items) = 0 THEN 0 ELSE L.items[1]]
first_resuming(L) ==
    LET c == IF Len(L.items) = 0 THEN 0 ELSE IF L.cur # 0 THEN L.cur ELSE 1
    IN  [list |-> [L EXCEPT !.cur = c],
         val  |-> IF c = 0 THEN 0 ELSE L.items[c]]

first(L) ==
    LET c == IF Len(L.items) = 0 THEN 0 ELSE 1
    IN  [list |-> [L EXCEPT !.cur = c],
         val  |-> IF c = 0 THEN 0 ELSE L.items[c]]

\* Mutant of next: the end of the list is taken one item too early.
next_early(L) ==
    LET c == IF L.cur = 0 \/ L.cur >= Len(L.items) - 1 THEN 0 ELSE L.cur + 1
    IN  [list |-> [L EXCEPT !.cur = c],
         val  |-> IF c = 0 THEN 0 ELSE L.items[c]]

\* Mutant of next: with no current item it starts over at the first rule.
next_wrapping(L) ==
    LET c == IF L.cur = 0 THEN (IF Len(L.items) = 0 THEN 0 ELSE 1)
             ELSE IF L.cur >= Len(L.items) THEN 0 ELSE L.cur + 1
    IN  [list |-> [L EXCEPT !.cur = c],
         val  |-> IF c = 0 THEN 0 ELSE L.items[c]]

next(L) ==
    LET c == IF L.cur = 0 \/ L.cur >= Len(L.items) THEN 0 ELSE L.cur + 1
    IN  [list |-> [L EXCEPT !.cur = c],
         val  |-> IF c = 0 THEN 0 ELSE L.items[c]]

current(L) == IF L.cur = 0 THEN 0 ELSE L.items[L.cur]

\* Mutants of clear: one deletes the rules and keeps the pointers in the
\* list, one empties the list without deleting the rules.
clear_dangling(L) == [list |-> L, deleted |-> Range(L.items)]
clear_leaking(L) == [list |-> EmptyList, deleted |-> {}]

\* clear(): the list deletes its items (auto-delete) and becomes empty.
clear(L) == [list |-> EmptyList, deleted |-> Range(L.items)]

\* Mutant of add: the rule is put in front of the others.
add_prepending(L, r) == [items |-> <<r>> \o L.items, cur |-> 1]

\* add( rule ): QPtrList::append, the appended item becomes the current one.
add(L, r) == [items |-> Append(L.items, r), cur |-> Len(L.items) + 1]

\* The scan shared by match() and matchingRule(): from the current item on,
\* stop at the first rule whose match() is true.
RECURSIVE Scan(_, _, _)
Scan(H, L, T) ==
    LET r == current(L)
    IN  IF r = 0 THEN [list |-> L, val |-> 0]
        ELSE IF ExcludeRule_match(H[r], T) THEN [list |-> L, val |-> r]
        ELSE Scan(H, next(L).list, T)

matchingRule(H, L, T) == Scan(H, first(L).list, T)

ExcludeRules_match(H, L, T) ==
    LET res == matchingRule(H, L, T)
    IN  [list |-> res.list, val |-> res.val # 0]

\* -------------------------------------------------------------------- Init
Init ==
    /\ rules       = [r \in RuleIds |-> FreeRule]
    /\ sets        = [s \in SetIds |-> FreeSet]
    /\ singleton   = 0
    /\ callerOwned = {}
    /\ ret         = Ret("init", 0, 0, NoText, FALSE, 0, NoPattern)
    /\ ghostPat    = [r \in RuleIds |-> NoPattern]
    /\ ghostEn     = [r \in RuleIds |-> FALSE]
    /\ addLog      = [s \in SetIds |-> <<>>]
    /\ owner       = [r \in RuleIds |-> 0]
    /\ delCount    = [r \in RuleIds |-> 0]
    /\ created     = 0

\* ------------------------------------------------------------ allocation
FreeRules == { r \in RuleIds : rules[r].st = "free" }
LiveRules == { r \in RuleIds : rules[r].st = "live" }
FreeSets  == { s \in SetIds : sets[s].st = "free" }
LiveSets  == { s \in SetIds : sets[s].st = "live" }

\* The heap after the rules in D have been deleted.
Delete(H, D) == [r \in RuleIds |-> IF r \in D THEN DeadRule ELSE H[r]]

\* ---------------------------------------------------- ExcludeRule actions
\* new ExcludeRule( p )
NewRule(p) ==
    /\ FreeRules # {}
    /\ LET r == Min(FreeRules) IN
        /\ rules'       = [rules EXCEPT ![r] = ExcludeRule(p)]
        /\ callerOwned' = callerOwned \cup {r}
        /\ ghostPat'    = [ghostPat EXCEPT ![r] = p]
        /\ ghostEn'     = [ghostEn EXCEPT ![r] = TRUE]
        /\ ret'         = Ret("ExcludeRule", 0, r, NoText, FALSE, 0, p)
    /\ UNCHANGED << sets, singleton, addLog, owner, delCount, created >>

\* rule->setRegexp( p )
SetRegexp(r, p) ==
    /\ r \in LiveRules
    /\ rules'    = [rules EXCEPT ![r] = setRegexp(rules[r], p)]
    /\ ghostPat' = [ghostPat EXCEPT ![r] = p]
    /\ ret'      = Ret("setRegexp", 0, r, NoText, FALSE, 0, p)
    /\ UNCHANGED << sets, singleton, callerOwned, ghostEn, addLog, owner,
                    delCount, created >>

\* rule->enable( flag )
Enable(r, flag) ==
    /\ r \in LiveRules
    /\ rules'   = [rules EXCEPT ![r] = enable(rules[r], flag)]
    /\ ghostEn' = [ghostEn EXCEPT ![r] = flag]
    /\ ret'     = Ret("enable", 0, r, NoText, flag, 0, NoPattern)
    /\ UNCHANGED << sets, singleton, callerOwned, ghostPat, addLog, owner,
                    delCount, created >>

\* rule->enable(): the flag defaults to true.
EnableDefault(r) ==
    /\ r \in LiveRules
    /\ rules'   = [rules EXCEPT ![r] = enable(rules[r], TRUE)]
    /\ ghostEn' = [ghostEn EXCEPT ![r] = TRUE]
    /\ ret'     = Ret("enable()", 0, r, NoText, FALSE, 0, NoPattern)
    /\ UNCHANGED << sets, singleton, callerOwned, ghostPat, addLog, owner,
                    delCount, created >>

\* rule->regexp()
GetRegexp(r) ==
    /\ r \in LiveRules
    /\ ret' = Ret("regexp", 0, r, NoText, FALSE, 0, regexp(rules[r]))
    /\ UNCHANGED << rules, sets, singleton, callerOwned, ghosts >>

\* rule->isEnabled()
IsEnabled(r) ==
    /\ r \in LiveRules
    /\ ret' = Ret("isEnabled", 0, r, NoText, isEnabled(rules[r]), 0, NoPattern)
    /\ UNCHANGED << rules, sets, singleton, callerOwned, ghosts >>

\* rule->match( T )
RuleMatch(r, T) ==
    /\ r \in LiveRules
    /\ ret' = Ret("ruleMatch", 0, r, T, ExcludeRule_match(rules[r], T), 0, NoPattern)
    /\ UNCHANGED << rules, sets, singleton, callerOwned, ghosts >>

\* --------------------------------------------------- ExcludeRules actions
\* new ExcludeRules(): an empty, auto-deleting list.
ExcludeRules == [st |-> "live", list |-> EmptyList]

NewSet ==
    /\ FreeSets # {}
    /\ LET s == Min(FreeSets) IN
        /\ sets' = [sets EXCEPT ![s] = ExcludeRules]
        /\ ret'  = Ret("ExcludeRules", s, 0, NoText, FALSE, 0, NoPattern)
    /\ UNCHANGED << rules, singleton, callerOwned, ghosts >>

\* Mutant of excludeRules: a new instance is constructed on every call.
excludeRules_renewing ==
    [new |-> TRUE, val |-> IF FreeSets = {} THEN 0 ELSE Min(FreeSets)]

\* ExcludeRules::excludeRules(): create the singleton if there is none yet.
excludeRules ==
    IF singleton = 0
    THEN [new |-> TRUE,  val |-> IF FreeSets = {} THEN 0 ELSE Min(FreeSets)]
    ELSE [new |-> FALSE, val |-> singleton]

CallExcludeRules ==
    LET res == excludeRules IN
    /\ res.val # 0
    /\ singleton' = res.val
    /\ sets'      = IF res.new THEN [sets EXCEPT ![res.val] = ExcludeRules]
                               ELSE sets
    /\ created'   = IF res.new THEN created + 1 ELSE created
    /\ ret'       = Ret("excludeRules", res.val, 0, NoText, res.new, 0, NoPattern)
    /\ UNCHANGED << rules, callerOwned, ghostPat, ghostEn, addLog, owner,
                    delCount >>

\* set->add( r ): the caller hands over a rule it owns.
Add(s, r) ==
    /\ s \in LiveSets
    /\ r \in callerOwned
    /\ sets'        = [sets EXCEPT ![s].list = add(sets[s].list, r)]
    /\ callerOwned' = callerOwned \ {r}
    /\ addLog'      = [addLog EXCEPT ![s] = Append(addLog[s], r)]
    /\ owner'       = [owner EXCEPT ![r] = s]
    /\ ret'         = Ret("add", s, r, NoText, FALSE, 0, NoPattern)
    /\ UNCHANGED << rules, singleton, ghostPat, ghostEn, delCount, created >>

\* set->match( T )
Match(s, T) ==
    /\ s \in LiveSets
    /\ LET res == ExcludeRules_match(rules, sets[s].list, T) IN
        /\ sets' = [sets EXCEPT ![s].list = res.list]
        /\ ret'  = [Ret("match", s, 0, T, res.val, 0, NoPattern)
                        EXCEPT !.cur0 = sets[s].list.cur]
    /\ UNCHANGED << rules, singleton, callerOwned, ghostPat, ghostEn, addLog,
                    owner, delCount, created >>

\* set->matchingRule( T )
MatchingRule(s, T) ==
    /\ s \in LiveSets
    /\ LET res == matchingRule(rules, sets[s].list, T) IN
        /\ sets' = [sets EXCEPT ![s].list = res.list]
        /\ ret'  = [Ret("matchingRule", s, 0, T, FALSE, res.val, NoPattern)
                        EXCEPT !.cur0 = sets[s].list.cur]
    /\ UNCHANGED << rules, singleton, callerOwned, ghostPat, ghostEn, addLog,
                    owner, delCount, created >>

\* set->first()
First(s) ==
    /\ s \in LiveSets
    /\ LET res == first(sets[s].list) IN
        /\ sets' = [sets EXCEPT ![s].list = res.list]
        /\ ret'  = Ret("first", s, 0, NoText, FALSE, res.val, NoPattern)
    /\ UNCHANGED << rules, singleton, callerOwned, ghostPat, ghostEn, addLog,
                    owner, delCount, created >>

\* set->next()
NextRule(s) ==
    /\ s \in LiveSets
    /\ LET res == next(sets[s].list) IN
        /\ sets' = [sets EXCEPT ![s].list = res.list]
        /\ ret'  = Ret("next", s, 0, NoText, FALSE, res.val, NoPattern)
    /\ UNCHANGED << rules, singleton, callerOwned, ghostPat, ghostEn, addLog,
                    owner, delCount, created >>

\* set->current()
Current(s) ==
    /\ s \in LiveSets
    /\ ret' = Ret("current", s, 0, NoText, FALSE, current(sets[s].list), NoPattern)
    /\ UNCHANGED << rules, sets, singleton, callerOwned, ghosts >>

\* set->clear()
Clear(s) ==
    /\ s \in LiveSets
    /\ LET res == clear(sets[s].list) IN
        /\ sets'     = [sets EXCEPT ![s].list = res.list]
        /\ rules'    = Delete(rules, res.deleted)
        /\ delCount' = [r \in RuleIds |->
                           IF r \in res.deleted THEN delCount[r] + 1 ELSE delCount[r]]
    /\ addLog' = [addLog EXCEPT ![s] = <<>>]
    /\ ret'    = Ret("clear", s, 0, NoText, FALSE, 0, NoPattern)
    /\ UNCHANGED << singleton, callerOwned, ghostPat, ghostEn, owner, created >>

\* delete set: the destructor of a set the caller constructed; the list is
\* destroyed with the set and deletes its items.
DeleteSet(s) ==
    /\ s \in LiveSets
    /\ s # singleton
    /\ LET res == clear(sets[s].list) IN
        /\ sets'     = [sets EXCEPT ![s] = DeadSet]
        /\ rules'    = Delete(rules, res.deleted)
        /\ delCount' = [r \in RuleIds |->
                           IF r \in res.deleted THEN delCount[r] + 1 ELSE delCount[r]]
    /\ addLog' = [addLog EXCEPT ![s] = <<>>]
    /\ ret'    = Ret("~ExcludeRules", s, 0, NoText, FALSE, 0, NoPattern)
    /\ UNCHANGED << singleton, callerOwned, ghostPat, ghostEn, owner, created >>

Next ==
    \/ \E p \in Patterns : NewRule(p)
    \/ \E r \in RuleIds, p \in Patterns : SetRegexp(r, p)
    \/ \E r \in RuleIds, flag \in BOOLEAN : Enable(r, flag)
    \/ \E r \in RuleIds : EnableDefault(r)
    \/ \E r \in RuleIds : GetRegexp(r)
    \/ \E r \in RuleIds : IsEnabled(r)
    \/ \E r \in RuleIds, T \in Texts : RuleMatch(r, T)
    \/ NewSet
    \/ CallExcludeRules
    \/ \E s \in SetIds, r \in RuleIds : Add(s, r)
    \/ \E s \in SetIds, T \in Texts : Match(s, T)
    \/ \E s \in SetIds, T \in Texts : MatchingRule(s, T)
    \/ \E s \in SetIds : First(s)
    \/ \E s \in SetIds : NextRule(s)
    \/ \E s \in SetIds : Current(s)
    \/ \E s \in SetIds : Clear(s)
    \/ \E s \in SetIds : DeleteSet(s)

Spec == Init /\ [][Next]_vars

\* ================================================================= claims
Items(s) == sets[s].list.items
Cursor(s) == sets[s].list.cur

\* Rule r, as it is on the heap now, is enabled and its pattern matches T.
EnabledMatch(r, T) == rules[r].enabled /\ Matches(rules[r].regexp, T)

\* The positions in set s of the enabled rules that match T.
MatchIdx(s, T) == { i \in 1..Len(Items(s)) : EnabledMatch(Items(s)[i], T) }

\* The rule a scan of set s for T has to report: the lowest-indexed enabled
\* matching rule, 0 if there is none.
FirstMatch(s, T) ==
    IF MatchIdx(s, T) = {} THEN 0 ELSE Items(s)[Min(MatchIdx(s, T))]

ScanOps == {"match", "matchingRule"}
IterOps == {"first", "next", "current"}

\* C1: match(T) returns true iff at least one enabled rule of the set matches
\* T, and matchingRule(T) returns the lowest-indexed enabled rule that matches
\* T, or 0 exactly when no enabled rule matches (when match(T) is false).
C1_MatchAnyEnabled ==
    /\ ret.op = "match" =>
          ret.flag = (\E i \in 1..Len(Items(ret.set)) :
                          EnabledMatch(Items(ret.set)[i], ret.text))
    /\ ret.op = "matchingRule" =>
          /\ ret.val = FirstMatch(ret.set, ret.text)
          /\ (ret.val = 0) = (MatchIdx(ret.set, ret.text) = {})

\* Both rules of a two-rule set match and matchingRule reported the first.
C1_Witness ==
    /\ ret.op = "matchingRule"
    /\ Len(Items(ret.set)) = 2
    /\ MatchIdx(ret.set, ret.text) = {1, 2}
    /\ ret.val = Items(ret.set)[1]

\* C2: ExcludeRule::match(T) returns true iff the rule is enabled at that
\* moment (the flag last given to enable, TRUE if none) and the pattern it has
\* at that moment (the one last given to the constructor or setRegexp) matches
\* somewhere within T; a disabled rule returns false whatever its pattern.
C2_RuleMatch ==
    ret.op = "ruleMatch" =>
        ret.flag = (ghostEn[ret.rule] /\ Matches(ghostPat[ret.rule], ret.text))

\* A disabled rule whose pattern matches the text returned false.
C2_Witness ==
    /\ ret.op = "ruleMatch"
    /\ ~ ghostEn[ret.rule]
    /\ Matches(ghostPat[ret.rule], ret.text)
    /\ ret.flag = FALSE

\* C7: pattern and enabled flag are independent. A new rule is enabled and
\* has the constructor's pattern; setRegexp(p) makes regexp() p and leaves the
\* flag as last set; enable(flag) makes isEnabled() flag (true when called
\* without argument) and leaves the pattern as last set; regexp() and isEnabled() return them and change
\* neither.
C7_PatternFlagIndependent ==
    /\ \A r \in LiveRules :
          /\ regexp(rules[r]) = ghostPat[r]
          /\ isEnabled(rules[r]) = ghostEn[r]
    /\ ret.op = "ExcludeRule" =>
          rules[ret.rule].enabled /\ rules[ret.rule].regexp = ret.pat
    /\ ret.op = "setRegexp" => rules[ret.rule].regexp = ret.pat
    /\ ret.op = "enable" => rules[ret.rule].enabled = ret.flag
    /\ ret.op = "enable()" => rules[ret.rule].enabled
    /\ ret.op = "regexp" => ret.pat = ghostPat[ret.rule]
    /\ ret.op = "isEnabled" => ret.flag = ghostEn[ret.rule]

\* setRegexp was called on a disabled rule, which is still disabled.
C7_Witness ==
    /\ ret.op = "setRegexp"
    /\ ~ ghostEn[ret.rule]
    /\ ~ rules[ret.rule].enabled
    /\ rules[ret.rule].regexp = ret.pat

\* C3: a rule set with no rules matches nothing. On a set that was given no
\* rule since it was constructed or last cleared, match(T) is false and
\* matchingRule(T), first(), next() and current() return 0, for every T.
C3_EmptySetMatchesNothing ==
    (ret.op \in ScanOps \cup IterOps /\ addLog[ret.set] = <<>>) =>
        (ret.flag = FALSE /\ ret.val = 0)

\* match() was called on a set whose rules had been added and then cleared.
C3_Witness ==
    /\ ret.op = "match"
    /\ sets[ret.set].st = "live"
    /\ addLog[ret.set] = <<>>
    /\ \E r \in RuleIds : owner[r] = ret.set /\ rules[r].st = "dead"

\* C5: match(T) moves the cursor shared with first()/next()/current(): after
\* the call current() is the rule at which the scan stopped (the first enabled
\* rule matching T), or 0 when the scan ran past the end, wherever the cursor
\* stood before the call.
C5_MatchMovesCursor ==
    ret.op = "match" =>
        /\ current(sets[ret.set].list) = FirstMatch(ret.set, ret.text)
        /\ ret.flag = (Cursor(ret.set) # 0)

\* The cursor stood at the first rule; the match call left it at the second.
C5_Witness ==
    /\ ret.op = "match"
    /\ Len(Items(ret.set)) = 2
    /\ ret.cur0 = 1
    /\ Cursor(ret.set) = 2

\* The rule following rule v in set s, 0 after the last one and after 0.
Successor(s, v) ==
    LET at == { i \in 1..Len(Items(s)) : Items(s)[i] = v }
    IN  IF v = 0 \/ at = {} \/ Min(at) >= Len(Items(s)) THEN 0
        ELSE Items(s)[Min(at) + 1]

\* Two calls in a row are traversal calls on the same set.
Traversing == ret.op \in IterOps /\ ret'.op \in IterOps /\ ret'.set = ret.set

CursorAt(s, c) == [items |-> Items(s), cur |-> c]

\* C8: match and matchingRule are idempotent on their result. A call changes
\* no rule and no rule sequence, what it returned is what the same call
\* returns from every cursor position an earlier match, first or next can
\* leave, and two calls in a row with the same text agree.
C8_ScanIdempotent ==
    /\ [](ret.op = "match" =>
            \A c \in 0..Len(Items(ret.set)) :
               ExcludeRules_match(rules, CursorAt(ret.set, c), ret.text).val = ret.flag)
    /\ [](ret.op = "matchingRule" =>
            \A c \in 0..Len(Items(ret.set)) :
               matchingRule(rules, CursorAt(ret.set, c), ret.text).val = ret.val)
    /\ [][ ret'.op \in ScanOps =>
               (rules' = rules /\ \A s \in SetIds : Items(s)' = Items(s)) ]_vars
    /\ [][ (ret.op \in ScanOps /\ ret'.op \in ScanOps
              /\ ret'.set = ret.set /\ ret'.text = ret.text) =>
               /\ (ret.op = "match" /\ ret'.op = "match") => ret'.flag = ret.flag
               /\ (ret.op = "matchingRule" /\ ret'.op = "matchingRule") =>
                      ret'.val = ret.val
               /\ (ret.op = "match" /\ ret'.op = "matchingRule") =>
                      ret.flag = (ret'.val # 0)
               /\ (ret.op = "matchingRule" /\ ret'.op = "match") =>
                      ret'.flag = (ret.val # 0) ]_vars

\* The cursor stood at the second rule and matchingRule reported the first.
C8_Witness ==
    /\ ret.op = "matchingRule"
    /\ Len(Items(ret.set)) = 2
    /\ ret.cur0 = 2
    /\ ret.val = Items(ret.set)[1]

Occurrences(r) ==
    Cardinality({ <<s, i>> \in SetIds \X (1..MaxRules) :
                     i <= Len(Items(s)) /\ Items(s)[i] = r })

DestroyOps == {"clear", "~ExcludeRules"}

====
